---- MODULE Spec2Model ----
(***************************************************************************)
(* A model of lamoda_scraper.py: the bounded-retry transport               *)
(* (get_response), the page fetcher (get_html), the image download         *)
(* (save_image), the pagination driver (get_next_page), the listing and    *)
(* item extractors (get_item_urls, get_item) and the crawl loop            *)
(* (get_all_items).                                                        *)
(*                                                                         *)
(* Texts are modelled by what the code reads from them.  A URL is the      *)
(* sequence of its pieces (host, path, "?", "&", "page=3"), so that        *)
(* appending a parameter and looking for a "?" are computed, not assumed.  *)
(* The network and the file system are the environment: every request is   *)
(* answered by a script, one outcome per attempt, chosen without           *)
(* constraint.                                                             *)
(***************************************************************************)
EXTENDS Integers, Sequences, FiniteSets, TLC

VARIABLES
    pc,            \* position of get_all_items
    category_url,  \* get_all_items: URL of the listing page to fetch (NONE: False)
    base_url,      \* get_all_items: template of the later listing URLs
    items,         \* get_all_items: the records accumulated so far
    html,          \* get_all_items: get_html's result for the current listing page
    todo,          \* get_all_items: item URLs of the for loop not yet visited
    netlog,        \* history: every call of get_response made by the crawl so far
    probe          \* one call of one function and its result (function-level specifications)

vars == <<pc, category_url, base_url, items, html, todo, netlog, probe>>

crawlVars == <<pc, category_url, base_url, items, html, todo, netlog>>

----------------------------------------------------------------------------
(* Program constants *)

MAX_RETRIES == 3

HTTP_OK == 200

HOST == "https://www.lamoda.ru"

IMAGE_HOST == "https://a.lmcdn.ru/img600x866"

(* Bounds of the model *)

MaxPageNo == 2      \* page numbers a pagination marker can carry: 0..MaxPageNo

MaxCalls == 5       \* get_response calls of one crawl

----------------------------------------------------------------------------
(* Documents, as far as the code reads them *)

\* A text is the sequence of its pieces; " " stands for a run of white space.
\* An element the code looks up with find() is absent (<<>>) or present with its
\* text (<<text>>).
Marker(current, total) == <<current, total>>

\* An <a class="products-list-item__link link">, with or without an href.
Link(has_href, href) == [has_href |-> has_href, href |-> href]

\* A <span class="ii-product__attribute-label">: its text, and the text of
\* the node that follows it, if one does.
Attribute(label, has_sibling, value) ==
    [label |-> label, has_sibling |-> has_sibling, value |-> value]

\* An html text: empty (blank), or with the matches of PAGE_RE in document order
\* (markers), the product-link elements in document order (links), the field
\* elements of a detail page, its attribute labels in document order, and its
\* d-gallery-widget element, given by the matches of IMAGE_RE in its :gallery
\* attribute (none when the attribute is missing).
BlankDoc ==
    [blank |-> TRUE, markers |-> <<>>, links |-> <<>>, model_name |-> <<>>,
     brand_name |-> <<>>, price_current |-> <<>>, description |-> <<>>,
     attributes |-> <<>>, gallery |-> <<>>]

\* A text with markup, none of it markup the code looks for.
PlainDoc == [BlankDoc EXCEPT !.blank = FALSE]

ListingDoc(markers, links) ==
    [PlainDoc EXCEPT !.markers = markers, !.links = links]

\* A response of requests.get: its status code and its body.
Response(status, text) == [got |-> TRUE, status |-> status, text |-> text]

\* False, as get_response returns it.
NoResponse == [got |-> FALSE, status |-> 0, text |-> BlankDoc]

\* One attempt's outcome: requests.get raised a RequestException, or returned.
Raised == [raised |-> TRUE, resp |-> NoResponse]

Returned(resp) == [raised |-> FALSE, resp |-> resp]

----------------------------------------------------------------------------
(* get_response: lines 58-69 *)

\* range(0, MAX_RETRIES): another attempt is made while attempt < MAX_RETRIES.
AttemptsLeft_OneMore(attempt) == attempt <= MAX_RETRIES

AttemptsLeft(attempt) == attempt < MAX_RETRIES

\* time.sleep(SLEEP_TIME) of the except branch.
SleepAfterError(log) == Append(log, "sleep")

\* time.sleep(SLEEP_TIME) of the else branch, before return r.
SleepAfterResponse_None(log) == log

SleepAfterResponse(log) == Append(log, "sleep")

\* The call on a transport that answers attempt i with script[i]: the value
\* returned, the number of requests made and the events in order.
RECURSIVE GetResponseFrom(_, _, _)
GetResponseFrom(script, attempt, log) ==
    IF ~AttemptsLeft(attempt)
    THEN [r |-> NoResponse, attempts |-> attempt, log |-> log]
    ELSE LET out == script[attempt + 1]
             sent == Append(log, "get")
         IN  IF out.raised
             THEN GetResponseFrom(script, attempt + 1, SleepAfterError(sent))
             ELSE [r |-> out.resp, attempts |-> attempt + 1,
                   log |-> SleepAfterResponse(sent)]

get_response(script) == GetResponseFrom(script, 0, <<>>)

\* bool(r) of "if not r": False is falsy, and a requests.Response is truthy
\* exactly when its status is below 400 (Response.__bool__ is Response.ok).
Truthy(r) == r.got /\ r.status < 400

----------------------------------------------------------------------------
(* get_html: lines 72-83 *)

StatusOk_Any(r) == TRUE

StatusOk(r) == r.status = HTTP_OK

\* False (ok = FALSE), or r.text.
Unavailable == [ok |-> FALSE, text |-> BlankDoc]

HtmlOf(r) ==
    IF ~Truthy(r) THEN Unavailable
    ELSE IF ~StatusOk(r) THEN Unavailable
    ELSE [ok |-> TRUE, text |-> r.text]

get_html(script) == HtmlOf(get_response(script).r)

\* "if not html" of the callers: False and the empty string are both falsy.
Falsy_EmptyOnly(h) == h.ok /\ h.text.blank

Falsy(h) == ~h.ok \/ h.text.blank

----------------------------------------------------------------------------
(* get_next_page: lines 110-129 *)

\* False, as get_next_page returns it; "while category_url" takes it, like the
\* empty string, for false.
NONE == <<>>

\* 'page={current + 1}'
PageParam(n) == "page=" \o ToString(n)

\* '?' in base_url
HasQuery(url) == \E i \in 1..Len(url) : url[i] = "?"

\* The separator of lines 122-125.
Separator_Always(url) == "?"

Separator(url) == IF HasQuery(url) THEN "&" ELSE "?"

\* current < total of line 120.
MorePages(current, total) == current < total

get_next_page(text, base) ==
    IF text.markers # <<>>
    THEN LET current == text.markers[1][1]
             total == text.markers[1][2]
         IN  IF MorePages(current, total)
             THEN base \o <<Separator(base), PageParam(current + 1)>>
             ELSE NONE
    ELSE NONE

----------------------------------------------------------------------------
(* get_item_urls: lines 132-138 *)

\* HOST + item.get('href') for every product link, in document order; the sum
\* raises a TypeError at a link without an href, for which get() is None.
get_item_urls(text) ==
    IF \E i \in 1..Len(text.links) : ~text.links[i].has_href
    THEN [raised |-> TRUE, urls |-> <<>>]
    ELSE [raised |-> FALSE,
          urls |-> [i \in 1..Len(text.links) |-> <<HOST>> \o text.links[i].href]]

----------------------------------------------------------------------------
(* clean_text: lines 141-142, and get_text(strip=True) *)

RECURSIVE DropLeading(_)
DropLeading(t) ==
    IF t # <<>> /\ Head(t) = " " THEN DropLeading(Tail(t)) ELSE t

RECURSIVE DropTrailing(_)
DropTrailing(t) ==
    IF t # <<>> /\ t[Len(t)] = " " THEN DropTrailing(SubSeq(t, 1, Len(t) - 1)) ELSE t

\* get_text(strip=True) of an element that holds one string.
Strip(t) == DropTrailing(DropLeading(t))

RECURSIVE Collapse(_)
Collapse(t) ==
    IF Len(t) < 2 THEN t
    ELSE IF t[1] = " " /\ t[2] = " " THEN Collapse(Tail(t))
    ELSE <<t[1]>> \o Collapse(Tail(t))

\* ' '.join(text.split())
clean_text(t) == Collapse(Strip(t))

----------------------------------------------------------------------------
(* save_image: lines 86-107 *)

\* The download of one image: the call of get_response, then the write of the
\* file, which the file system lets succeed (writable) or fail with an OSError.
save_image(script, writable) ==
    LET r == get_response(script).r
    IN  IF ~Truthy(r) THEN FALSE
        ELSE IF ~StatusOk(r) THEN FALSE
        ELSE writable

----------------------------------------------------------------------------
(* get_item: lines 146-211 *)

\* item[key] = value
DictSet(item, key, value) ==
    [k \in (DOMAIN item) \cup {key} |-> IF k = key THEN value ELSE item[k]]

\* The labels of lines 178-199 (transliterated) and the key each one sets.
LabelKeys ==
    [label \in {"Sostav:", "Shirina:", "Diametr ciferblata:", "Sezon:",
                "Cvet:", "Mehanizm chasov:", "Vodozashchita:",
                "Cvet furnitury:", "Garantijnyj period:",
                "Strana proizvodstva:", "Artikul"} |->
        CASE label = "Sostav:" -> "compound"
          [] label = "Shirina:" -> "width"
          [] label = "Diametr ciferblata:" -> "diameter"
          [] label = "Sezon:" -> "season"
          [] label = "Cvet:" -> "color"
          [] label = "Mehanizm chasov:" -> "machinery"
          [] label = "Vodozashchita:" -> "waterproof"
          [] label = "Cvet furnitury:" -> "furniture_color"
          [] label = "Garantijnyj period:" -> "duration_of_cover"
          [] label = "Strana proizvodstva:" -> "country"
          [] label = "Artikul" -> "marking"]

\* Lines 157-163 and 169-171: an element looked up with find() sets its key to
\* its cleaned text, if it is there.
SetText(item, key, found) ==
    IF found # <<>> THEN DictSet(item, key, clean_text(Strip(found[1]))) ELSE item

\* price_current.get_text(strip=True)[:-1] + 'RUB'
PriceText(t) ==
    LET s == Strip(t)
    IN  (IF s = <<>> THEN s ELSE SubSeq(s, 1, Len(s) - 1)) \o <<"RUB">>

\* Lines 165-167.
SetPrice(item, found) ==
    IF found # <<>> THEN DictSet(item, "price_current", PriceText(found[1])) ELSE item

TitleFields(item, text) ==
    LET a == SetText(item, "model_name", text.model_name)
        b == SetText(a, "brand_name", text.brand_name)
        c == SetPrice(b, text.price_current)
    IN  SetText(c, "description", text.description)

\* Lines 173-199: the loop over the attribute labels, from label i on.
\* attribute.next_sibling.get_text raises an AttributeError when nothing
\* follows the label (next_sibling is None).
RECURSIVE AttributeFields(_, _, _)
AttributeFields(item, attributes, i) ==
    IF i > Len(attributes) THEN [raised |-> FALSE, item |-> item]
    ELSE LET attribute == attributes[i]
             label_text == Strip(attribute.label)
         IN  IF ~attribute.has_sibling
             THEN [raised |-> TRUE, item |-> item]
             ELSE LET value_text == clean_text(Strip(attribute.value))
                  IN  AttributeFields(
                          IF Len(label_text) = 1 /\ label_text[1] \in DOMAIN LabelKeys
                          THEN DictSet(item, LabelKeys[label_text[1]], value_text)
                          ELSE item,
                          attributes, i + 1)


IMAGE_DIR == "img"

\* Lines 201-209: whether the image sub-flow reaches save_image, which needs
\* the d-gallery-widget element and a match of IMAGE_RE in its :gallery.
HasImagePath(text) == text.gallery # <<>> /\ text.gallery[1] # <<>>

\* IMAGE_HOST + search_results[0]
ImageUrl(text) == <<IMAGE_HOST>> \o text.gallery[1][1]

\* os.path.join(os.getcwd(), IMAGE_DIR, search_results[0].split('/')[-1])
ImageFilename(text) ==
    LET path == text.gallery[1][1]
    IN  <<"cwd", IMAGE_DIR, path[Len(path)]>>

\* Line 208: the image key is set when save_image returns True.
ImageSaved_Always(saved) == TRUE

ImageSaved(saved) == saved

\* An entry of netlog: the function that called get_response, the URL, whether
\* the caller got what it asked for (a text that is not falsy, a saved image)
\* and, for a listing page, the markers it carried and the number of its links.
Call(fn, url, ok, markers, listed) ==
    [fn |-> fn, url |-> url, ok |-> ok, markers |-> markers, listed |-> listed]

\* The call for item_url, the detail request answered by dscript and the image
\* request, if one is made, by iscript and a file system that is writable or not:
\* whether an exception left the function (raised), whether a record was
\* returned (found; otherwise False was), the record, and the requests made.
get_item(item_url, dscript, iscript, writable) ==
    LET h == get_html(dscript)
        new == [url |-> item_url]
        detail == Call("item", item_url, ~Falsy(h), <<>>, 0)
    IN  IF Falsy(h)
        THEN [raised |-> FALSE, found |-> FALSE, item |-> new, calls |-> <<detail>>]
        ELSE LET fields == AttributeFields(TitleFields(new, h.text),
                                           h.text.attributes, 1)
                 saved == save_image(iscript, writable)
             IN  IF fields.raised
                 THEN [raised |-> TRUE, found |-> FALSE, item |-> new,
                       calls |-> <<detail>>]
                 ELSE IF HasImagePath(h.text)
                 THEN [raised |-> FALSE, found |-> TRUE,
                       item |-> IF ImageSaved(saved)
                                THEN DictSet(fields.item, "image",
                                             <<"file:///">> \o ImageFilename(h.text))
                                ELSE fields.item,
                       calls |-> <<detail,
                                   Call("image", ImageUrl(h.text), saved, <<>>, 0)>>]
                 ELSE [raised |-> FALSE, found |-> TRUE, item |-> fields.item,
                       calls |-> <<detail>>]

----------------------------------------------------------------------------
(* The environment of a crawl *)

\* The status codes of the responses: 200, one that is truthy and not 200, and
\* one that is falsy.
Statuses == {HTTP_OK, 204, 404}

\* k failed attempts, then resp.
ScriptOf(k, resp) ==
    [i \in 1..(MAX_RETRIES + 1) |-> IF i <= k THEN Raised ELSE Returned(resp)]

\* The transports of a crawl: two failures and then a 200 with one of the
\* texts, a first answer with another status, and three failures.
ScriptsOf(texts) ==
    {ScriptOf(MAX_RETRIES - 1, Response(HTTP_OK, t)) : t \in texts}
    \cup {ScriptOf(0, Response(s, PlainDoc)) : s \in Statuses \ {HTTP_OK}}
    \cup {ScriptOf(MAX_RETRIES, Response(HTTP_OK, PlainDoc))}

PageNos == 1..MaxPageNo

\* The markers of the listing pages of a crawl: none, or a page number within
\* the total (get_next_page alone is applied to every pair, see AllMarkers).
CrawlMarkers ==
    {<<>>} \cup {<<Marker(p[1], p[2])>> : p \in {q \in PageNos \X PageNos : q[1] <= q[2]}}

LinkA == Link(TRUE, <<"/p/a">>)

LinkB == Link(TRUE, <<"/p/b">>)

\* The product links of a listing page: none, one, two, the same one twice, and
\* one without an href.
CrawlLinkLists ==
    {<<>>, <<LinkA>>, <<LinkA, LinkB>>, <<LinkB, LinkB>>, <<LinkA, Link(FALSE, <<>>)>>}

CrawlListings ==
    {BlankDoc} \cup {ListingDoc(m, l) : m \in CrawlMarkers, l \in CrawlLinkLists}

\* Detail pages: an empty text, one with a label that nothing follows, and one
\* with a model name, an attribute and a gallery path.
CrawlDetails ==
    {BlankDoc,
     [PlainDoc EXCEPT !.model_name = <<<<"Watch">>>>,
                      !.attributes = <<Attribute(<<"Sezon:">>, FALSE, <<>>)>>],
     [PlainDoc EXCEPT !.model_name = <<<<"Watch", " ", " ", "X">>>>,
                      !.attributes = <<Attribute(<<"Sezon:">>, TRUE, <<"leto">>)>>,
                      !.gallery = << <<<<"/dir", "/a.jpg">>>> >>]}

StartUrls == {<<HOST, "/c/">>, <<HOST, "/c/", "?", "page=2">>}

NoProbe == [fn |-> "none"]

----------------------------------------------------------------------------
(* get_all_items: lines 215-237 *)

\* Lines 220-221: items = [], base_url = category_url.
Init ==
    /\ pc = "loop"
    /\ category_url \in StartUrls
    /\ base_url = category_url
    /\ items = <<>>
    /\ html = Unavailable
    /\ todo = <<>>
    /\ netlog = <<>>
    /\ probe = NoProbe

\* Lines 222-229: the loop test holds, the listing page is requested (the
\* transport answers by script), and either the crawl returns what it has
\* (line 227) or the for loop starts on the URLs of get_item_urls.
\* The history of the requests made; a crawl followed without a bound on its
\* length keeps none.
Record(calls) == IF probe.fn = "unrecorded" THEN netlog ELSE netlog \o calls

FetchListingWith(script) ==
    /\ pc = "loop"
    /\ category_url # NONE
    /\ Len(netlog) < MaxCalls
    /\ LET h == get_html(script)
           found == get_item_urls(h.text)
       IN  /\ html' = h
           /\ netlog' = Record(<<Call("listing", category_url, ~Falsy(h),
                                       h.text.markers, Len(h.text.links))>>)
           /\ pc' = IF Falsy(h) THEN "done"
                    ELSE IF found.raised THEN "raised"
                    ELSE "items"
           /\ todo' = IF Falsy(h) THEN <<>> ELSE found.urls
    /\ UNCHANGED <<category_url, base_url, items, probe>>

FetchListing == \E script \in ScriptsOf(CrawlListings) : FetchListingWith(script)

\* Lines 229-232: one turn of the for loop, get_item and the append.
VisitItemWith(dscript, iscript, writable) ==
    /\ pc = "items"
    /\ todo # <<>>
    /\ Len(netlog) < MaxCalls
    /\ LET got == get_item(Head(todo), dscript, iscript, writable)
       IN  /\ netlog' = Record(got.calls)
           /\ items' = IF got.found THEN Append(items, got.item) ELSE items
           /\ pc' = IF got.raised THEN "raised" ELSE "items"
    /\ todo' = Tail(todo)
    /\ UNCHANGED <<category_url, base_url, html, probe>>

VisitItem ==
    \E dscript \in ScriptsOf(CrawlDetails), iscript \in ScriptsOf({PlainDoc}),
       writable \in BOOLEAN :
        VisitItemWith(dscript, iscript, writable)

\* Line 234 with category_url in the place of base_url.
NextPage_FromCurrent ==
    /\ pc = "items"
    /\ todo = <<>>
    /\ category_url' = get_next_page(html.text, category_url)
    /\ pc' = "loop"
    /\ UNCHANGED <<base_url, items, html, todo, netlog, probe>>

\* Line 234 inside the for loop.
NextPage_Early ==
    /\ pc = "items"
    /\ category_url' = get_next_page(html.text, base_url)
    /\ pc' = "loop"
    /\ UNCHANGED <<base_url, items, html, todo, netlog, probe>>

\* Line 234, after the for loop.
NextPage ==
    /\ pc = "items"
    /\ todo = <<>>
    /\ category_url' = get_next_page(html.text, base_url)
    /\ pc' = "loop"
    /\ UNCHANGED <<base_url, items, html, todo, netlog, probe>>

\* Lines 222 and 236-237: the loop test fails and items is returned.
Return ==
    /\ pc = "loop"
    /\ category_url = NONE
    /\ pc' = "done"
    /\ UNCHANGED <<category_url, base_url, items, html, todo, netlog, probe>>

Next == FetchListing \/ VisitItem \/ NextPage \/ Return

Spec == Init /\ [][Next]_vars

----------------------------------------------------------------------------
(* The crawl followed for ever: every request returns or raises, and the
   flow takes its next step *)

\* Detail pages that give no record: unavailable, empty, or with a label that
\* has no sibling.
LiveDetails ==
    {BlankDoc,
     [PlainDoc EXCEPT !.attributes = <<Attribute(<<"Sezon:">>, FALSE, <<>>)>>]}

InitLive ==
    /\ pc = "loop"
    /\ category_url \in StartUrls
    /\ base_url = category_url
    /\ items = <<>>
    /\ html = Unavailable
    /\ todo = <<>>
    /\ netlog = <<>>
    /\ probe = [fn |-> "unrecorded"]

LiveVisitItem ==
    \E dscript \in ScriptsOf(LiveDetails) :
        VisitItemWith(dscript, ScriptOf(0, Response(HTTP_OK, PlainDoc)), TRUE)

LiveNext == FetchListing \/ LiveVisitItem \/ NextPage \/ Return

SpecLive == InitLive /\ [][LiveNext]_vars /\ WF_vars(LiveNext)

----------------------------------------------------------------------------
(* Line 234 alone: get_next_page on every listing text and base URL *)

MaxMarkers == 2     \* matches of PAGE_RE in one listing text

SeqsUpTo(S, n) == UNION {[1..m -> S] : m \in 0..n}

AllMarkers == {Marker(c, t) : c \in 0..MaxPageNo, t \in 0..MaxPageNo}

BaseUrls ==
    {<<HOST, "/c/">>,
     <<HOST, "/c/", "?", "sort=x">>,
     <<HOST, "/c/", "?", "page=2">>,
     <<HOST, "/c/", "?", "sort=x", "&", "page=1">>}

\* The state of get_all_items at line 234, the for loop of some page over.
InitNextPage ==
    /\ pc = "items"
    /\ todo = <<>>
    /\ base_url \in BaseUrls
    /\ category_url = base_url
    /\ items = <<>>
    /\ netlog = <<>>
    /\ \E markers \in SeqsUpTo(AllMarkers, MaxMarkers) :
          html = [ok |-> TRUE, text |-> ListingDoc(markers, <<>>)]
    /\ probe = NoProbe

SpecNextPage == InitNextPage /\ [][NextPage]_vars

----------------------------------------------------------------------------
(* Lines 230-232 alone: one turn of the for loop on every detail page *)

ItemAttributes ==
    {<<>>,
     <<Attribute(<<"Sezon:">>, TRUE, <<" ", "leto", " ", " ", "zima">>)>>,
     <<Attribute(<<"Sezon:">>, FALSE, <<>>)>>,
     <<Attribute(<<"Razmer:">>, TRUE, <<"42">>)>>,
     <<Attribute(<<"Cvet:">>, TRUE, <<"belyj">>),
       Attribute(<<" ", "Artikul">>, TRUE, <<"MP002XM">>)>>}

\* No d-gallery-widget, one without a path in :gallery, one with two paths.
ItemGalleries ==
    {<<>>,
     << <<>> >>,
     << <<<<"/dir", "/a.jpg">>, <<"/dir", "/b.jpg">>>> >>}

\* No price element, a price text that ends in the currency glyph, and one of
\* two digits that does not.
ItemPrices ==
    {<<>>,
     <<<<"12", " ", "345", "<rouble>">>>>,
     <<<<"4", "5">>>>}

ItemDetails ==
    {BlankDoc} \cup
    {[PlainDoc EXCEPT !.model_name = m, !.price_current = p,
                      !.attributes = a, !.gallery = g] :
        m \in {<<>>, <<<<"Watch", " ", " ", "X">>>>},
        p \in ItemPrices,
        a \in ItemAttributes,
        g \in ItemGalleries} \cup
    {[PlainDoc EXCEPT !.brand_name = b, !.description = d, !.attributes = a] :
        b \in {<<>>, <<<<" ", "Casio">>>>},
        d \in {<<>>, <<<<"steel", " ", " ", "case", " ">>>>},
        a \in ItemAttributes}

ItemUrl == <<HOST, "/p/a">>

InitItem ==
    /\ pc = "items"
    /\ todo = <<ItemUrl>>
    /\ base_url = <<HOST, "/c/">>
    /\ category_url = base_url
    /\ items = <<>>
    /\ netlog = <<>>
    /\ html = [ok |-> TRUE, text |-> ListingDoc(<<>>, <<LinkA>>)]
    /\ \E dscript \in ScriptsOf(ItemDetails), iscript \in ScriptsOf({PlainDoc}),
          writable \in BOOLEAN :
          probe = [fn |-> "get_item", dscript |-> dscript, iscript |-> iscript,
                   writable |-> writable]

VisitItemProbe ==
    /\ probe.fn = "get_item"
    /\ VisitItemWith(probe.dscript, probe.iscript, probe.writable)

SpecItem == InitItem /\ [][VisitItemProbe]_vars

----------------------------------------------------------------------------
(* Lines 223-229 alone: one listing page of every content *)

MaxLinks == 2       \* product-link elements of one listing text

\* An href that is already absolute.
LinkAbsolute == Link(TRUE, <<HOST, "/p/c">>)

ListingLinks == {LinkA, LinkB, LinkAbsolute, Link(FALSE, <<>>)}

ListingTexts ==
    {BlankDoc} \cup
    {ListingDoc(m, l) : m \in CrawlMarkers, l \in SeqsUpTo(ListingLinks, MaxLinks)}

InitListing ==
    /\ pc = "loop"
    /\ base_url = <<HOST, "/c/">>
    /\ category_url = base_url
    /\ items = <<>>
    /\ html = Unavailable
    /\ todo = <<>>
    /\ netlog = <<>>
    /\ \E script \in ScriptsOf(ListingTexts) :
          probe = [fn |-> "get_item_urls", script |-> script]

FetchListingProbe ==
    /\ probe.fn = "get_item_urls"
    /\ FetchListingWith(probe.script)

SpecListing == InitListing /\ [][FetchListingProbe]_vars

----------------------------------------------------------------------------
(* One call of get_response and get_html on every transport script *)

\* Some text that is not empty.
SomeDoc == ListingDoc(<<Marker(1, 2)>>, <<Link(TRUE, <<"/p/a">>)>>)

FetchOutcomes ==
    {Raised} \cup {Returned(Response(s, t)) : s \in Statuses, t \in {BlankDoc, SomeDoc}}

\* One outcome more than the retry ceiling, so that a further attempt would
\* have an answer.
FetchScripts == [1..(MAX_RETRIES + 1) -> FetchOutcomes]

\* get_all_items is not running.
CrawlIdle ==
    /\ pc = "idle"
    /\ category_url = <<>>
    /\ base_url = <<>>
    /\ items = <<>>
    /\ html = Unavailable
    /\ todo = <<>>
    /\ netlog = <<>>

NotCalled == [r |-> NoResponse, attempts |-> 0, log |-> <<>>]

InitFetch ==
    /\ CrawlIdle
    /\ \E script \in FetchScripts :
           probe = [fn |-> "get_html", script |-> script, done |-> FALSE,
                    res |-> NotCalled, html |-> Unavailable]

CallFetch ==
    /\ probe.fn = "get_html"
    /\ ~probe.done
    /\ probe' = [probe EXCEPT !.done = TRUE,
                              !.res = get_response(probe.script),
                              !.html = get_html(probe.script)]
    /\ UNCHANGED crawlVars

SpecFetch == InitFetch /\ [][CallFetch]_vars

\* The attempts of a script that raise, up to the retry ceiling.
AllRaise(script) == \A i \in 1..MAX_RETRIES : script[i].raised

FirstResponse(script) ==
    CHOOSE i \in 1..MAX_RETRIES :
        /\ ~script[i].raised
        /\ \A j \in 1..(i - 1) : script[j].raised

Count(log, e) == Cardinality({i \in 1..Len(log) : log[i] = e})

\* C1: get_response makes at most MAX_RETRIES = 3 requests, returns the first
\* response it receives, whatever its status, making no request after it, and
\* returns False if and only if all 3 attempts raised; a transport that fails
\* twice and then answers gives that answer on the third attempt.
C1_BoundedRetry ==
    probe.done =>
        LET s == probe.script
            res == probe.res
        IN  /\ res.attempts <= MAX_RETRIES
            /\ Count(res.log, "get") = res.attempts
            /\ ~res.r.got <=> AllRaise(s)
            /\ AllRaise(s) => res.attempts = MAX_RETRIES
            /\ ~AllRaise(s) =>
                   /\ res.attempts = FirstResponse(s)
                   /\ res.r = s[FirstResponse(s)].resp
            /\ (s[1].raised /\ s[2].raised /\ ~s[3].raised) =>
                   res.attempts = 3 /\ res.r = s[3].resp

\* A transport that failed twice and then answered 404; the call has returned.
C1_Witness ==
    /\ probe.done
    /\ probe.script[1].raised /\ probe.script[2].raised
    /\ probe.script[3] = Returned(Response(404, SomeDoc))
    /\ probe.res.r = Response(404, SomeDoc)

\* C2: every request of get_response, answered or failed, is followed by
\* exactly one sleep before the next request or the return: the events are
\* get, sleep, get, sleep, ..., one pair per attempt, and a response is
\* returned only after the sleep of its attempt.
C2_OneDelayPerAttempt ==
    probe.done =>
        LET log == probe.res.log
        IN  /\ Len(log) = 2 * probe.res.attempts
            /\ \A i \in 1..Len(log) :
                   log[i] = (IF i % 2 = 1 THEN "get" ELSE "sleep")
            /\ probe.res.r.got => log[Len(log)] = "sleep"

\* Two failures and an answer: three requests, each with its one sleep.
C2_Witness ==
    /\ probe.done
    /\ probe.script[1].raised /\ probe.script[2].raised /\ ~probe.script[3].raised
    /\ probe.res.r.got
    /\ probe.res.log = <<"get", "sleep", "get", "sleep", "get", "sleep">>

\* C3: get_html returns the text of the response if and only if get_response
\* returned a response and its status is 200; in every other case (no
\* response after 3 failed attempts, any other status) it returns False.
C3_HtmlIffOk ==
    probe.done =>
        LET r == probe.res.r
        IN  /\ probe.html.ok <=> (r.got /\ r.status = HTTP_OK)
            /\ probe.html.ok => probe.html.text = r.text
            /\ ~probe.html.ok => probe.html = Unavailable
            /\ AllRaise(probe.script) => probe.html = Unavailable

\* All three attempts raised and get_html returned False.
C3_Witness ==
    /\ probe.done
    /\ AllRaise(probe.script)
    /\ probe.html = Unavailable

----------------------------------------------------------------------------
(* The crawl *)

Listings == SelectSeq(netlog, LAMBDA c : c.fn = "listing")

ItemCalls == SelectSeq(netlog, LAMBDA c : c.fn = "item")

\* C4: when get_html returns False for a listing page, the first or a later
\* one, get_all_items returns at once what it had accumulated, nothing dropped
\* and nothing added, and that request is the crawl's last.
C4_StopsOnUnavailable ==
    /\ [][(pc = "loop" /\ netlog' # netlog /\ html' = Unavailable) =>
             /\ pc' = "done"
             /\ items' = items
             /\ netlog' = Append(netlog, Call("listing", category_url, FALSE, <<>>, 0))]_vars
    /\ [][pc = "done" => (pc' = "done" /\ items' = items /\ netlog' = netlog)]_vars

\* The second listing page was unavailable after a record had been accumulated.
C4_Witness ==
    /\ pc = "done"
    /\ html = Unavailable
    /\ Len(Listings) = 2
    /\ Len(items) = 1
    /\ netlog[Len(netlog)].fn = "listing"

\* The answer of a transport to get_response: its first response within the
\* retry ceiling, if it has one.
Answer(script) ==
    IF AllRaise(script) THEN NoResponse ELSE script[FirstResponse(script)].resp

\* The turn of the for loop is over and no exception ended it.
Visited == probe.fn = "get_item" /\ todo = <<>> /\ pc = "items"

\* C5 (as claimed): the item URL visited gives a record if and only if its
\* detail request was answered with status 200; otherwise it is skipped.
C5_RecordIffStatusOk ==
    Visited =>
        (Len(items) = 1 <=>
            (Answer(probe.dscript).got /\ Answer(probe.dscript).status = HTTP_OK))

\* C6: get_next_page returns False when the text has no pagination marker or
\* its first marker has current >= total; otherwise it returns base_url followed
\* by "&" if base_url holds a "?" and by "?" if not, and page=<current + 1>.
\* base_url is taken as it is: one that has a page parameter gets a second.
C6_NextPageUrl ==
    (pc = "loop" /\ netlog = <<>> /\ html.ok) =>
        LET markers == html.text.markers
            current == markers[1][1]
            total == markers[1][2]
            query == \E i \in 1..Len(base_url) : base_url[i] = "?"
        IN  IF markers = <<>> \/ current >= total
            THEN category_url = NONE
            ELSE /\ Len(category_url) = Len(base_url) + 2
                 /\ SubSeq(category_url, 1, Len(base_url)) = base_url
                 /\ category_url[Len(base_url) + 1] = (IF query THEN "&" ELSE "?")
                 /\ category_url[Len(base_url) + 2] = "page=" \o ToString(current + 1)

\* A base URL that has page=2, and the next page after current:1,total:2.
C6_Witness ==
    /\ pc = "loop"
    /\ html.ok /\ html.text.markers = <<Marker(1, 2)>>
    /\ base_url = <<HOST, "/c/", "?", "page=2">>
    /\ category_url = <<HOST, "/c/", "?", "page=2", "&", "page=2">>

RECURSIVE Listed(_)
Listed(calls) ==
    IF calls = <<>> THEN 0 ELSE Head(calls).listed + Listed(Tail(calls))

\* So far every request of the crawl gave its caller a text, and the n-th
\* listing page carried the marker current:n,total:T.
Category(T) ==
    /\ \A i \in 1..Len(netlog) : netlog[i].fn # "image" => netlog[i].ok
    /\ \A n \in 1..Len(Listings) : Listings[n].markers = <<Marker(n, T)>>

\* C7 (as claimed): in such a category get_all_items requests the listing pages
\* 1..T in order, each once, and returns one record per listed item after
\* page T.
C7_VisitsEveryPageOnce ==
    \A T \in PageNos :
        Category(T) =>
            /\ pc # "raised"
            /\ Len(Listings) <= T
            /\ \A n \in 2..Len(Listings) :
                   Listings[n].url = base_url \o <<Separator(base_url), PageParam(n)>>
            /\ pc = "done" =>
                   /\ Len(Listings) = T
                   /\ Len(items) = Listed(Listings)
                   /\ Len(ItemCalls) = Listed(Listings)

PageParams(url) ==
    Cardinality({i \in 1..Len(url) :
                    url[i] \in {PageParam(n) : n \in 0..(MaxPageNo + 1)}})

\* C8 (as claimed): every listing URL requested after the first carries
\* exactly one page parameter, whatever the start URL.
C8_OnePageParameter ==
    \A n \in 2..Len(Listings) : PageParams(Listings[n].url) = 1

\* C9: the record of get_item has the image key if and only if the gallery
\* element was found, a path matched, the download was answered with status
\* 200 and the file was written; whatever the image sub-flow does, the record
\* is returned and appended with its other keys as extracted.
C9_ImageIffSaved ==
    LET r == Answer(probe.dscript)
        text == r.text
        usable == r.got /\ r.status = HTTP_OK /\ ~text.blank
        complete == \A i \in 1..Len(text.attributes) : text.attributes[i].has_sibling
        download == Answer(probe.iscript)
        saved == /\ text.gallery # <<>>
                 /\ text.gallery[1] # <<>>
                 /\ download.got /\ download.status = HTTP_OK
                 /\ probe.writable
        others == AttributeFields(TitleFields([url |-> ItemUrl], text),
                                  text.attributes, 1).item
    IN  (probe.fn = "get_item" /\ todo = <<>> /\ usable /\ complete) =>
            /\ pc = "items"
            /\ Len(items) = 1
            /\ "image" \in DOMAIN items[1] <=> saved
            /\ [k \in (DOMAIN items[1]) \ {"image"} |-> items[1][k]] = others
            /\ saved => items[1]["image"] = <<"file:///", "cwd", IMAGE_DIR, "/a.jpg">>

\* The image request was answered 404: the record is appended without image
\* and with its model name.
C9_Witness ==
    /\ Visited
    /\ HasImagePath(Answer(probe.dscript).text)
    /\ Answer(probe.iscript).status = 404
    /\ Len(items) = 1
    /\ "image" \notin DOMAIN items[1]
    /\ "model_name" \in DOMAIN items[1]

\* C10 (as claimed): no exception leaves get_all_items, whatever the pages
\* hold.
C10_NeverRaises == pc # "raised"

----------------------------------------------------------------------------
(* The listing extractor *)

\* The listing page has been requested and its text was not falsy.
Listed1 ==
    /\ probe.fn = "get_item_urls"
    /\ netlog # <<>>
    /\ html.ok /\ ~html.text.blank

\* C11 (as claimed): get_item_urls returns one URL per product-link element
\* of the listing text, in document order and without deduplication, an empty
\* sequence for a text without product links.
C11_OneUrlPerLink ==
    Listed1 =>
        LET links == html.text.links
        IN  /\ pc = "items"
            /\ Len(todo) = Len(links)
            /\ \A i \in 1..Len(links) :
                   /\ links[i].has_href
                   /\ todo[i][Len(todo[i])] = links[i].href[Len(links[i].href)]

\* C12 (as claimed): the host is prefixed to an href if and only if the href
\* is host-relative; an href that is absolute is returned as it is.
C12_AbsoluteUrls ==
    (Listed1 /\ \A i \in 1..Len(html.text.links) : html.text.links[i].has_href) =>
        /\ pc = "items"
        /\ Len(todo) = Len(html.text.links)
        /\ \A i \in 1..Len(todo) :
               LET href == html.text.links[i].href
               IN  todo[i] = (IF href[1] = HOST THEN href ELSE <<HOST>> \o href)

----------------------------------------------------------------------------
(* The fields of a record *)

\* The text of the detail page that answered the request of the turn.
DetailText == Answer(probe.dscript).text

\* The detail request of the turn was answered with status 200.
DetailFetched ==
    /\ probe.fn = "get_item"
    /\ todo = <<>>
    /\ Answer(probe.dscript).got
    /\ Answer(probe.dscript).status = HTTP_OK

\* The keys whose attribute label is among the labels of the text.
LabelledKeys(text) ==
    {LabelKeys[l] : l \in {k \in DOMAIN LabelKeys :
        \E i \in 1..Len(text.attributes) : Strip(text.attributes[i].label) = <<k>>}}

AnchoredKeys(text) ==
    {"url"}
    \cup (IF text.model_name # <<>> THEN {"model_name"} ELSE {})
    \cup (IF text.brand_name # <<>> THEN {"brand_name"} ELSE {})
    \cup (IF text.price_current # <<>> THEN {"price_current"} ELSE {})
    \cup (IF text.description # <<>> THEN {"description"} ELSE {})
    \cup LabelledKeys(text)

\* C13 (as claimed): every detail page answered with status 200 gives a
\* record whose keys other than image are url and exactly the keys whose
\* element or attribute label is in the page; a label that is not known adds
\* no key, and a page without any of them gives a record of url alone.
C13_FieldsIffAnchors ==
    DetailFetched =>
        /\ pc = "items"
        /\ Len(items) = 1
        /\ DOMAIN items[1] \ {"image"} = AnchoredKeys(DetailText)

\* C14 (as claimed): price_current is the stripped text of the price element
\* without its trailing currency glyph, followed by RUB; a text that does not
\* end in the glyph keeps all its characters.
C14_PriceKeepsDigits ==
    (DetailFetched /\ pc = "items" /\ Len(items) = 1
        /\ "price_current" \in DOMAIN items[1]) =>
        LET t == Strip(DetailText.price_current[1])
        IN  items[1].price_current =
                (IF t # <<>> /\ t[Len(t)] = "<rouble>"
                 THEN SubSeq(t, 1, Len(t) - 1) ELSE t) \o <<"RUB">>

----------------------------------------------------------------------------
(* The crawl: its URLs and the order of its requests *)

\* url is base_url followed by one separator and one page parameter.
SuffixedOnce(url) ==
    /\ Len(url) = Len(base_url) + 2
    /\ SubSeq(url, 1, Len(base_url)) = base_url
    /\ url[Len(url) - 1] \in {"?", "&"}
    /\ url[Len(url)] \in {PageParam(n) : n \in 1..(MaxPageNo + 1)}

\* C15: base_url never changes after the crawl has started; the first listing
\* URL requested is base_url, the start URL, and every later one is base_url
\* with exactly one page=<n> suffix, n being one more than the current page of
\* the marker of the listing page fetched just before.
C15_BaseUrlFixed ==
    /\ [][base_url' = base_url]_vars
    /\ [](\A i \in 1..Len(Listings) :
             IF i = 1 THEN Listings[i].url = base_url
             ELSE /\ SuffixedOnce(Listings[i].url)
                  /\ Listings[i - 1].markers # <<>>
                  /\ Listings[i].url[Len(Listings[i].url)]
                        = PageParam(Listings[i - 1].markers[1][1] + 1))
    /\ [][(pc = "items" /\ pc' = "loop" /\ category_url' # NONE) =>
             /\ SuffixedOnce(category_url')
             /\ html.text.markers = Listings[Len(Listings)].markers]_vars

\* The server repeated the marker 1 of 2 on the second page of a start URL
\* with a query: the URL of the second page is about to be requested again.
C15_Witness ==
    /\ Len(Listings) = 2
    /\ Listings[2].url = base_url \o <<"&", "page=2">>
    /\ pc = "loop"
    /\ category_url = Listings[2].url

\* The index in netlog of the last listing request, 0 if there is none.
LastListing ==
    IF Listings = <<>> THEN 0
    ELSE CHOOSE j \in 1..Len(netlog) :
            /\ netlog[j].fn = "listing"
            /\ \A k \in (j + 1)..Len(netlog) : netlog[k].fn # "listing"

\* The item URLs requested since the last listing request.
VisitedUrls ==
    LET after == SubSeq(netlog, LastListing + 1, Len(netlog))
        calls == SelectSeq(after, LAMBDA c : c.fn = "item")
    IN  [i \in 1..Len(calls) |-> calls[i].url]

\* The image URLs of the detail pages that have a gallery path.
GalleryUrls == {ImageUrl(text) : text \in {t \in CrawlDetails : HasImagePath(t)}}

\* C16: requests are made one after the other: a listing request, then for
\* each item URL of that page in document order its detail request, followed
\* at once by at most one image request, made only if the detail page was
\* available and for a gallery path; the next listing is requested only when
\* every item URL of the page has been processed.
C16_RequestOrder ==
    /\ [](/\ netlog # <<>> => netlog[1].fn = "listing"
          /\ \A i \in 1..Len(netlog) :
                netlog[i].fn = "image" =>
                    /\ i > 1
                    /\ netlog[i - 1].fn = "item"
                    /\ netlog[i - 1].ok
                    /\ netlog[i].url \in GalleryUrls
          /\ (pc \in {"items", "loop"} /\ netlog # <<>>) =>
                VisitedUrls \o todo = get_item_urls(html.text).urls)
    /\ [][netlog' # netlog =>
             LET new == SubSeq(netlog', Len(netlog) + 1, Len(netlog'))
             IN  /\ SubSeq(netlog', 1, Len(netlog)) = netlog
                 /\ new[1].fn \in {"listing", "item"}
                 /\ new[1].fn = "listing" => (Len(new) = 1 /\ todo = <<>>)
                 /\ new[1].fn = "item" =>
                       /\ todo # <<>>
                       /\ new[1].url = Head(todo)
                       /\ Len(new) <= 2]_vars

\* A page of two items: the first gave a detail page and an image, the second
\* was unavailable, and the next listing page was requested after both.
C16_Witness ==
    /\ Len(netlog) = 5
    /\ netlog[1].fn = "listing"
    /\ netlog[2].fn = "item" /\ netlog[2].ok
    /\ netlog[3].fn = "image"
    /\ netlog[4].fn = "item" /\ ~netlog[4].ok
    /\ netlog[5].fn = "listing"

----------------------------------------------------------------------------
(* Termination *)

\* C17 (as claimed): if every request returns or raises, every crawl ends,
\* by returning or by an exception, whatever markers the server reports.
C17_Terminates == <>(pc \in {"done", "raised"})

====
